---------------------------- MODULE Spec2Model ----------------------------
(***************************************************************************)
(* A model of app/cert.py: the pipeline that resolves the domains, has the *)
(* external program lego issue or renew the certificate, publishes the     *)
(* certificate to marathon-lb and waits for the deployment, the backoff    *)
(* wrapper and the three process entry modes.                              *)
(*                                                                         *)
(* A Python string is a sequence of one-character strings, so that split,  *)
(* startswith, replace and string comparison are computed.  A value that   *)
(* may be missing (None, a missing key, a missing file) is a sequence of   *)
(* length 0 or 1.                                                          *)
(***************************************************************************)
EXTENDS Integers, Sequences, FiniteSets, TLC

(***************************************************************************)
(* Bounds of the model.                                                    *)
(***************************************************************************)
\* Distinct non-empty certificate contents the issuer or an operator may produce.
MaxCert == 2
\* Changes other users of the platform make while the process runs.
MaxExternal == 1

(***************************************************************************)
(* Constants of the program.                                               *)
(***************************************************************************)
HAPROXY_SSL_CERT == "HAPROXY_SSL_CERT"
CERTIFICATES_DIR == ".lego/certificates/"
\* update_marathon_app: time.sleep(5), sum_wait_time += 5
DeployPollSeconds == 5
\* update_marathon_app: sum_wait_time > 60*5
DeployTimeoutSeconds == 300
\* run_client_with_backoff: backoff_seconds = 30
InitialBackoffSeconds == 30
\* run_client_with_backoff: backoff_seconds *= 2
BackoffFactor == 2
\* run_client_with_backoff: sum_wait_time >= 60*60
BackoffBudgetSeconds == 3600

(***************************************************************************)
(* Optional values and strings.                                            *)
(***************************************************************************)
None == << >>
Some(v) == << v >>
IsSome(o) == Len(o) = 1
Get(o) == o[1]

\* "" and the strings used as inputs.
EmptyString == << >>
\* Another key of the load balancer's environment, and its values.
OtherEnvKey == "HAPROXY_GLOBAL_DEFAULT_OPTIONS"
OtherEnvValues == { <<"o", "1">>, <<"o", "2">> }

\* The contents a certificate file or the certificate variable may hold.
CertData == { EmptyString } \cup { <<i>> : i \in 1..MaxCert }

\* The comma-joined domain lists a label or DOMAINS may hold.
DomainStrings ==
    { <<"a">>,
      <<"a", ",", "b">>,
      <<"b", ",", "a">>,
      <<"*", ".", "a">> }

RECURSIVE SplitFrom(_, _, _)
SplitFrom(s, cur, acc) ==
    IF s = << >> THEN Append(acc, cur)
    ELSE IF Head(s) = "," THEN SplitFrom(Tail(s), << >>, Append(acc, cur))
    ELSE SplitFrom(Tail(s), Append(cur, Head(s)), acc)

\* str.split(",")
Split(s) == SplitFrom(s, << >>, << >>)

\* str.startswith("*")
StartsWithStar(s) == Len(s) > 0 /\ s[1] = "*"

\* str.replace("*", "_")
ReplaceStar(s) == [i \in 1..Len(s) |-> IF s[i] = "*" THEN "_" ELSE s[i]]

\* dict.get(key, default)
DictGet(d, key, default) == IF key \in DOMAIN d THEN d[key] ELSE default

\* d[key] = value
DictSet(d, key, value) ==
    [k \in (DOMAIN d) \cup {key} |-> IF k = key THEN value ELSE d[k]]

\* s[-1]
Last(s) == s[Len(s)]

RECURSIVE SumSeq(_)
SumSeq(s) == IF s = << >> THEN 0 ELSE Head(s) + SumSeq(Tail(s))

RECURSIVE Pow2(_)
Pow2(n) == IF n = 0 THEN 1 ELSE 2 * Pow2(n - 1)

(***************************************************************************)
(* State.                                                                  *)
(***************************************************************************)
VARIABLES
    argv1,                 \* sys.argv[1]: "", "service" or "service_with_backoff"
    verification_method,   \* LETSENCRYPT_VERIFICATION_METHOD
    DOMAINS,               \* the DOMAINS environment variable (optional)
    vhost,                 \* platform: own app's label HAPROXY_0_VHOST (optional)
    lb_app,                \* platform: marathon-lb's definition, env and maybe secrets
    domains_file,          \* disk: .lego/current_domains (optional)
    certificates,          \* disk: the files of .lego/certificates, [path, data]
    pc,                    \* where the process is
    error,                 \* the exception that ended the current attempt, "" if none
    backoff_seconds,       \* run_client_with_backoff
    sum_wait_time,         \* run_client_with_backoff
    waits,                 \* the sleeps of this run_client_with_backoff call
    failed_after_issue,    \* the attempt before this one, of the same
                           \* run_client_with_backoff call, failed after lego
                           \* exited 0 (kept until this attempt's comparison)
    domains,               \* run_client: the resolved domain string
    lego_runs,             \* this attempt's lego invocations: [mode, returncode]
    cert_data,             \* upload_cert_to_marathon_lb
    app_data,              \* upload_cert_to_marathon_lb: the fetched definition (optional)
    patches,               \* this attempt's PATCH bodies
    deployment_exists,     \* update_marathon_app
    deploy_wait_time,      \* update_marathon_app's sum_wait_time
    polls,                 \* this attempt's deployment polls: was the id listed
    steps,                 \* the pipeline steps this attempt has begun
    app_gets,              \* this attempt's GETs of an app definition: who asked
    lb_app_at_patch,       \* the definition the platform held when this attempt's
                           \* PATCH reached it (optional)
    previous_upload,       \* the publish step called twice: how the call before
                           \* this one ended (optional)
    external               \* the changes made by the platform's other users so far

config == << argv1, verification_method, DOMAINS >>
platform == << vhost, lb_app, external >>
disk == << domains_file, certificates >>
wrapper == << backoff_seconds, sum_wait_time, waits, failed_after_issue >>
attempt == << domains, lego_runs, cert_data, app_data, patches,
              deployment_exists, deploy_wait_time, polls, steps, app_gets,
              lb_app_at_patch >>
vars == << config, platform, disk, pc, error, wrapper, attempt, previous_upload >>

(***************************************************************************)
(* Files.                                                                  *)
(***************************************************************************)
\* get_cert_filepath
get_cert_filepath(domain_name) ==
    LET name == IF StartsWithStar(domain_name) THEN ReplaceStar(domain_name)
                ELSE domain_name
    IN << CERTIFICATES_DIR, "/" >> \o name \o << ".pem" >>

\* The path generate_letsencrypt_cert tests with os.path.exists.
ExistsCheckPath(first_domain) ==
    << CERTIFICATES_DIR, "/" >> \o first_domain \o << ".crt" >>

\* The .crt file beside a .pem artifact.
CrtSibling(pem_path) == SubSeq(pem_path, 1, Len(pem_path) - 1) \o << ".crt" >>

PathExists(files, path) == \E f \in files : f.path = path

ReadFile(files, path) == (CHOOSE f \in files : f.path = path).data

WriteFile(files, path, data) ==
    { f \in files : f.path # path } \cup { [path |-> path, data |-> data] }

\* read_domains_from_last_time
read_domains_from_last_time(file) == IF IsSome(file) THEN Get(file) ELSE EmptyString

\* write_domains_to_file
write_domains_to_file(d) == Some(d)

(***************************************************************************)
(* Control.                                                                *)
(***************************************************************************)
\* The locals of one run_client call before it has done anything.
FreshAttempt ==
    /\ domains' = EmptyString
    /\ lego_runs' = << >>
    /\ cert_data' = EmptyString
    /\ app_data' = None
    /\ patches' = << >>
    /\ deployment_exists' = FALSE
    /\ deploy_wait_time' = 0
    /\ polls' = << >>
    /\ steps' = << >>
    /\ app_gets' = << >>
    /\ lb_app_at_patch' = None
    /\ error' = ""

\* Where an exception raised in run_client goes.
RaisedPc == IF argv1 = "service_with_backoff" THEN "except" ELSE "fatal"

\* A loop that calls again at once, without time.sleep(24*60*60).
ReturnedPc_LoopsWithoutSleep ==
    IF argv1 \in {"service", "service_with_backoff"} THEN "main" ELSE "exit"

\* Where the process goes when run_client returns.
ReturnedPc == IF argv1 \in {"service", "service_with_backoff"} THEN "sleep24" ELSE "exit"

\* The error printed and the function going on as if nothing had happened.
Raise_PrintedOnly(ex) == error' = ex /\ pc' = pc

\* A wrapper that re-raises a configuration error at once.
Raise_UnknownMethodIsFatal(ex) ==
    /\ error' = ex
    /\ pc' = IF ex = "Unknown verification method" THEN "fatal" ELSE RaisedPc

Raise(ex) == error' = ex /\ pc' = RaisedPc

Return == error' = "" /\ pc' = ReturnedPc

Init ==
    /\ argv1 \in {"", "service", "service_with_backoff"}
    /\ verification_method \in {"http", "dns", "tls"}
    /\ \/ verification_method = "http" /\ DOMAINS = None
          /\ vhost \in {None} \cup { Some(d) : d \in DomainStrings }
       \/ verification_method = "dns" /\ vhost = None
          /\ DOMAINS \in {None} \cup { Some(d) : d \in DomainStrings }
       \/ verification_method = "tls" /\ vhost = Some(<<"a">>) /\ DOMAINS = None
    /\ lb_app = [env |-> [k \in {OtherEnvKey} |-> <<"o", "1">>],
                 secrets |-> { <<"secret0", "/lb/key">> }]
    /\ domains_file = None
    /\ certificates = {}
    /\ pc = "main"
    /\ error = ""
    /\ backoff_seconds = 0
    /\ sum_wait_time = 0
    /\ waits = << >>
    /\ failed_after_issue = FALSE
    /\ domains = EmptyString
    /\ lego_runs = << >>
    /\ cert_data = EmptyString
    /\ app_data = None
    /\ patches = << >>
    /\ deployment_exists = FALSE
    /\ deploy_wait_time = 0
    /\ polls = << >>
    /\ steps = << >>
    /\ app_gets = << >>
    /\ lb_app_at_patch = None
    /\ previous_upload = None
    /\ external = 0


(***************************************************************************)
(* __main__                                                                *)
(***************************************************************************)
\* The default mode: run_client() once.
MainOnce ==
    /\ pc = "main" /\ argv1 = ""
    /\ pc' = "get_domains"
    /\ FreshAttempt
    /\ UNCHANGED << config, platform, disk, wrapper, previous_upload >>

\* "service": while True: run_client(); sleep 24 hours.
MainService ==
    /\ pc = "main" /\ argv1 = "service"
    /\ pc' = "get_domains"
    /\ FreshAttempt
    /\ UNCHANGED << config, platform, disk, wrapper, previous_upload >>

\* A wrapper whose interval and accumulated wait are kept from call to call.
MainBackoff_KeepsBackoffState ==
    /\ pc = "main" /\ argv1 = "service_with_backoff"
    /\ IF backoff_seconds = 0
       THEN /\ backoff_seconds' = InitialBackoffSeconds
            /\ sum_wait_time' = 0
            /\ waits' = << >>
            /\ failed_after_issue' = FALSE
       ELSE UNCHANGED wrapper
    /\ pc' = "get_domains"
    /\ FreshAttempt
    /\ UNCHANGED << config, platform, disk, previous_upload >>

\* "service_with_backoff": while True: run_client_with_backoff(); sleep 24 hours.
\* run_client_with_backoff starts with its two locals and calls run_client.
MainBackoff ==
    /\ pc = "main" /\ argv1 = "service_with_backoff"
    /\ backoff_seconds' = InitialBackoffSeconds
    /\ sum_wait_time' = 0
    /\ waits' = << >>
    /\ failed_after_issue' = FALSE
    /\ pc' = "get_domains"
    /\ FreshAttempt
    /\ UNCHANGED << config, platform, disk, previous_upload >>

\* time.sleep(24*60*60), then the top of the while loop.  The locals of the
\* call that returned are gone.
Sleep24 ==
    /\ pc = "sleep24"
    /\ pc' = "main"
    /\ FreshAttempt
    /\ UNCHANGED << config, platform, disk, wrapper, previous_upload >>

(***************************************************************************)
(* get_domains, called first by run_client                                 *)
(***************************************************************************)
\* get_domains without its last branch: any method but dns reads the label.
get_domains_UnknownAsHttp(response_ok) ==
    IF ~response_ok
    THEN [ex |-> "Could not get app details from marathon", value |-> None]
    ELSE IF verification_method = "dns"
    THEN [ex |-> "", value |-> DOMAINS]
    ELSE IF IsSome(vhost) THEN [ex |-> "", value |-> vhost]
    ELSE [ex |-> "KeyError", value |-> None]

\* What get_domains does given whether the platform answered its GET with
\* success: the exception it raises ("" if none) and the value it returns.
get_domains(response_ok) ==
    IF ~response_ok
    THEN [ex |-> "Could not get app details from marathon", value |-> None]
    ELSE IF verification_method = "http"
    THEN IF IsSome(vhost) THEN [ex |-> "", value |-> vhost]
         ELSE [ex |-> "KeyError", value |-> None]
    ELSE IF verification_method = "dns"
    THEN [ex |-> "", value |-> DOMAINS]
    ELSE [ex |-> "Unknown verification method", value |-> None]

\* run_client: domains = get_domains(); print("Requesting certificates for " + domains)
GetDomains ==
    /\ pc = "get_domains"
    /\ steps' = Append(steps, "resolve")
    /\ app_gets' = Append(app_gets, "get_domains")
    /\ \E response_ok \in BOOLEAN :
         LET r == get_domains(response_ok) IN
         IF r.ex # "" THEN Raise(r.ex) /\ UNCHANGED domains
         ELSE IF ~IsSome(r.value) THEN Raise("TypeError") /\ UNCHANGED domains
         ELSE domains' = Get(r.value) /\ pc' = "generate" /\ UNCHANGED error
    /\ UNCHANGED << config, platform, disk, wrapper, lego_runs, cert_data, app_data,
                    patches, deployment_exists, deploy_wait_time, polls,
                    lb_app_at_patch, previous_upload >>

(***************************************************************************)
(* generate_letsencrypt_cert                                               *)
(***************************************************************************)
\* The final positional arguments given to lego.
LegoMode(d, file, files) ==
    LET domains_changed == d # read_domains_from_last_time(file)
        first_domain == Split(d)[1]
    IN IF ~domains_changed /\ PathExists(files, ExistsCheckPath(first_domain))
       THEN << "renew", "--days", "80" >>
       ELSE << "run" >>

\* The files lego leaves after exiting 0: the combined .pem the caller reads
\* next at get_cert_filepath(first_domain), and the .crt beside it.  A
\* renewal that is not yet due leaves the files as they are.
LegoFiles(files, first_domain, mode) ==
    { WriteFile(WriteFile(files, get_cert_filepath(first_domain), c),
                CrtSibling(get_cert_filepath(first_domain)), c) : c \in CertData }
    \cup (IF mode[1] = "renew" THEN { files } ELSE {})

\* The write placed before the check of the return code.
PersistsDomains_BeforeExitCheck(returncode) == TRUE

\* Whether domains is written to .lego/current_domains after lego returned.
PersistsDomains(returncode) == returncode = 0

GenerateCert ==
    /\ pc = "generate"
    /\ steps' = Append(steps, "issue")
    /\ LET mode == LegoMode(domains, domains_file, certificates)
           first_domain == Split(domains)[1]
       IN \E returncode \in {0, 1} :
            /\ lego_runs' = Append(lego_runs, [domains |-> Split(domains),
                                               mode |-> mode,
                                               returncode |-> returncode])
            /\ IF PersistsDomains(returncode)
               THEN domains_file' = write_domains_to_file(domains)
               ELSE UNCHANGED domains_file
            /\ IF returncode # 0
               THEN /\ Raise("Obtaining certificates failed")
                    /\ UNCHANGED certificates
               ELSE /\ certificates' \in LegoFiles(certificates, first_domain, mode)
                    /\ pc' = "upload"
                    /\ UNCHANGED error
    /\ UNCHANGED << config, platform, wrapper, domains, cert_data, app_data, patches,
                    deployment_exists, deploy_wait_time, polls, app_gets,
                    lb_app_at_patch, previous_upload >>

(***************************************************************************)
(* upload_cert_to_marathon_lb and update_marathon_app                      *)
(***************************************************************************)
\* Reads the certificate file and fetches marathon-lb's definition.
UploadFetch ==
    /\ pc = "upload"
    /\ steps' = Append(steps, "publish")
    /\ LET cert_filename == get_cert_filepath(Split(domains)[1]) IN
       IF ~PathExists(certificates, cert_filename)
       THEN /\ Raise("FileNotFoundError")
            /\ UNCHANGED << cert_data, app_data, app_gets >>
       ELSE /\ cert_data' = ReadFile(certificates, cert_filename)
            /\ app_gets' = Append(app_gets, "upload")
            /\ \E response_ok \in BOOLEAN :
                 IF ~response_ok
                 THEN /\ Raise("Could not get app details from marathon")
                      /\ UNCHANGED app_data
                 ELSE /\ app_data' = Some(lb_app)
                      /\ pc' = "compare"
                      /\ UNCHANGED error
    /\ UNCHANGED << config, platform, disk, wrapper, domains, lego_runs, patches,
                    deployment_exists, deploy_wait_time, polls, lb_app_at_patch,
                    previous_upload >>

\* The comparison with env.get(HAPROXY_SSL_CERT), whose default is None.
CertificateChanged_NoDefault(env, data) ==
    HAPROXY_SSL_CERT \notin DOMAIN env \/ env[HAPROXY_SSL_CERT] # data

\* Compare old and new certs.
CertificateChanged(env, data) == DictGet(env, HAPROXY_SSL_CERT, EmptyString) # data

\* The body without env[HAPROXY_SSL_CERT] = cert_data.
PatchBody_KeepsOldCertificate(app, data) ==
    [id |-> "marathon-lb",
     env |-> app.env,
     secrets |-> DictGet(app, "secrets", {})]

\* The call with no secrets to send.
PatchBody_DropsSecrets(app, data) ==
    [id |-> "marathon-lb",
     env |-> DictSet(app.env, HAPROXY_SSL_CERT, data),
     secrets |-> {}]

\* A body with the certificate variable alone, for the platform to merge.
PatchBody_OnlyCertificate(app, data) ==
    [id |-> "marathon-lb",
     env |-> [k \in {HAPROXY_SSL_CERT} |-> data],
     secrets |-> DictGet(app, "secrets", {})]

\* The body update_marathon_app sends: id, and the keyword arguments env and secrets.
PatchBody(app, data) ==
    [id |-> "marathon-lb",
     env |-> DictSet(app.env, HAPROXY_SSL_CERT, data),
     secrets |-> DictGet(app, "secrets", {})]

\* The definition after the platform has accepted a PATCH: the fields of the
\* body replace the definition's.
Patched(app, body) == DictSet(DictSet(app, "env", body.env), "secrets", body.secrets)

\* The comparison, and when the certificate differs the PATCH and its response.
UploadCompare ==
    /\ pc = "compare"
    /\ IF CertificateChanged(Get(app_data).env, cert_data)
       THEN LET body == PatchBody(Get(app_data), cert_data) IN
            /\ patches' = Append(patches, body)
            /\ lb_app_at_patch' = Some(lb_app)
            /\ \E response \in {"not ok", "no deploymentId", "deploymentId"} :
                 \/ /\ response = "not ok"
                    /\ Raise("Could not update app")
                    /\ UNCHANGED << lb_app, deployment_exists, deploy_wait_time, steps >>
                 \/ /\ response = "no deploymentId"
                    /\ lb_app' \in { lb_app, Patched(lb_app, body) }
                    /\ Raise("Marathon did not return deployment id")
                    /\ UNCHANGED << deployment_exists, deploy_wait_time, steps >>
                 \/ /\ response = "deploymentId"
                    /\ lb_app' = Patched(lb_app, body)
                    /\ deployment_exists' = TRUE
                    /\ deploy_wait_time' = 0
                    /\ steps' = Append(steps, "wait")
                    /\ pc' = "wait"
                    /\ UNCHANGED error
       ELSE /\ Return
            /\ UNCHANGED << lb_app, patches, lb_app_at_patch, deployment_exists,
                            deploy_wait_time, steps >>
    /\ failed_after_issue' = FALSE
    /\ UNCHANGED << config, vhost, external, disk, backoff_seconds, sum_wait_time,
                    waits, domains, lego_runs, cert_data, app_data, polls, app_gets,
                    previous_upload >>

\* The check with >= for >.
DeploymentTimedOut_AtCeiling(waited) == waited >= DeployTimeoutSeconds

\* The check that ends the wait with an exception.
DeploymentTimedOut(waited) == waited > DeployTimeoutSeconds

\* One turn of the while loop: sleep, add to the waited time, fetch the list of
\* running deployments, look for the id, test the waited time.
WaitPoll ==
    /\ pc = "wait" /\ deployment_exists
    /\ deploy_wait_time' = deploy_wait_time + DeployPollSeconds
    /\ \E seen \in {"listed", "absent", "error"} :
         /\ polls' = Append(polls, seen)
         /\ IF seen = "error"
            THEN /\ Raise("TypeError")
                 /\ UNCHANGED deployment_exists
            ELSE /\ deployment_exists' = (seen = "listed")
                 /\ IF DeploymentTimedOut(deploy_wait_time')
                    THEN /\ Raise("Failed to update app due to timeout in deployment.")
                    ELSE IF ~deployment_exists'
                    THEN /\ Return
                    ELSE UNCHANGED << pc, error >>
    /\ UNCHANGED << config, platform, disk, wrapper, domains, lego_runs, cert_data,
                    app_data, patches, steps, app_gets, lb_app_at_patch,
                    previous_upload >>

(***************************************************************************)
(* run_client_with_backoff                                                 *)
(***************************************************************************)
\* A wrapper without the test of the accumulated wait.
GivesUp_Never(waited) == FALSE

\* Whether the wrapper re-raises instead of waiting.
GivesUp(waited) == waited >= BackoffBudgetSeconds

\* backoff_seconds += 30 for backoff_seconds *= 2.
NextBackoff_Linear(seconds) == seconds + InitialBackoffSeconds

\* backoff_seconds after a wait.
NextBackoff(seconds) == seconds * BackoffFactor

\* A wrapper that keeps what the failed attempt had done and goes on at the
\* publish step.
RetryPc_ResumesAtPublish ==
    IF "publish" \in { steps[i] : i \in 1..Len(steps) } THEN "upload" ELSE "get_domains"

\* Where the wrapper continues after its sleep: the top of while True, which
\* calls run_client again.
RetryPc == "get_domains"

\* The except clause.
Except ==
    /\ pc = "except"
    /\ IF GivesUp(sum_wait_time)
       THEN /\ pc' = "fatal"
            /\ UNCHANGED << wrapper, attempt, error >>
       ELSE /\ sum_wait_time' = sum_wait_time + backoff_seconds
            /\ waits' = Append(waits, backoff_seconds)
            /\ backoff_seconds' = NextBackoff(backoff_seconds)
            /\ failed_after_issue' = (lego_runs # << >> /\ Last(lego_runs).returncode = 0)
            /\ pc' = RetryPc
            /\ FreshAttempt
    /\ UNCHANGED << config, platform, disk, previous_upload >>

(***************************************************************************)
(* The platform's other users.                                             *)
(***************************************************************************)
\* Somebody else changes marathon-lb's environment.  The process reads the
\* definition in UploadFetch and writes it in UploadCompare, so a change made at
\* any other time is to the process a change made just before its next read.
ExternalEnvChange ==
    /\ pc \in {"upload", "compare"}
    /\ external < MaxExternal
    /\ external' = external + 1
    /\ \E env \in { DictSet(lb_app.env, HAPROXY_SSL_CERT, c) : c \in CertData }
                  \cup { DictSet(lb_app.env, OtherEnvKey, v) : v \in OtherEnvValues } :
         /\ env # lb_app.env
         /\ lb_app' = DictSet(lb_app, "env", env)
    /\ UNCHANGED << config, vhost, disk, pc, error, wrapper, attempt, previous_upload >>

\* Somebody else changes the HAPROXY_0_VHOST label, which the process reads in
\* GetDomains (and uses in http mode).
ExternalRelabel ==
    /\ pc = "get_domains"
    /\ verification_method = "http"
    /\ external < MaxExternal
    /\ external' = external + 1
    /\ \E d \in DomainStrings : vhost' = Some(d) /\ vhost' # vhost
    /\ UNCHANGED << config, lb_app, disk, pc, error, wrapper, attempt, previous_upload >>

\* The process, and the label changing under it.
Next ==
    \/ MainOnce
    \/ MainService
    \/ MainBackoff
    \/ Sleep24
    \/ GetDomains
    \/ GenerateCert
    \/ UploadFetch
    \/ UploadCompare
    \/ WaitPoll
    \/ Except
    \/ ExternalRelabel

Spec == Init /\ [][Next]_vars

(***************************************************************************)
(* The process alone, every call it makes returning: lego exits, the       *)
(* platform answers every request, time.sleep returns.                     *)
(***************************************************************************)
Process ==
    \/ MainOnce
    \/ MainService
    \/ MainBackoff
    \/ Sleep24
    \/ GetDomains
    \/ GenerateCert
    \/ UploadFetch
    \/ UploadCompare
    \/ WaitPoll
    \/ Except

SpecReturning == Init /\ [][Process]_vars /\ WF_vars(Process)

(***************************************************************************)
(* The publish step on its own: upload_cert_to_marathon_lb called on any   *)
(* definition and any certificate file, and called again when it ended,    *)
(* with marathon-lb's environment changing under it.                       *)
(***************************************************************************)
\* The environments marathon-lb may have.
LbEnvs ==
    { [k \in {OtherEnvKey} |-> v] : v \in OtherEnvValues }
    \cup { [k \in {OtherEnvKey, HAPROXY_SSL_CERT} |->
              IF k = OtherEnvKey THEN v ELSE c] : v \in OtherEnvValues, c \in CertData }

\* The files lego left for a primary domain.
IssuedFiles(first_domain, c) ==
    WriteFile(WriteFile({}, get_cert_filepath(first_domain), c),
              CrtSibling(get_cert_filepath(first_domain)), c)

\* The domain lists the publish step is tried on.
PublishDomains == { <<"a">> }

InitPublish ==
    /\ argv1 = ""
    /\ verification_method = "dns"
    /\ vhost = None
    /\ \E d \in PublishDomains :
         /\ DOMAINS = Some(d)
         /\ domains = d
         /\ domains_file = Some(d)
         /\ \E c \in CertData : certificates = IssuedFiles(Split(d)[1], c)
    /\ \E env \in LbEnvs :
         lb_app \in { [env |-> env],
                      [env |-> env, secrets |-> { <<"secret0", "/lb/key">> }] }
    /\ external = 0
    /\ pc = "upload"
    /\ error = ""
    /\ backoff_seconds = 0
    /\ sum_wait_time = 0
    /\ waits = << >>
    /\ failed_after_issue = FALSE
    /\ lego_runs = << >>
    /\ cert_data = EmptyString
    /\ app_data = None
    /\ patches = << >>
    /\ deployment_exists = FALSE
    /\ deploy_wait_time = 0
    /\ polls = << >>
    /\ steps = << >>
    /\ app_gets = << >>
    /\ lb_app_at_patch = None
    /\ previous_upload = None

\* How the publish call that has ended ended.
HowEnded ==
    IF error # "" THEN error
    ELSE IF patches = << >> THEN "unchanged" ELSE "completed"

\* The call has ended and the step is called again, on the certificate file
\* as the issuer left it in between.
CallAgain ==
    /\ pc \in {"exit", "fatal"}
    /\ previous_upload' = Some([cert |-> cert_data, how |-> HowEnded])
    /\ \E c \in CertData : certificates' = IssuedFiles(Split(domains)[1], c)
    /\ pc' = "upload"
    /\ error' = ""
    /\ cert_data' = EmptyString
    /\ app_data' = None
    /\ patches' = << >>
    /\ deployment_exists' = FALSE
    /\ deploy_wait_time' = 0
    /\ polls' = << >>
    /\ steps' = << >>
    /\ app_gets' = << >>
    /\ lb_app_at_patch' = None
    /\ UNCHANGED << config, platform, domains_file, wrapper, domains, lego_runs >>

NextPublish ==
    \/ UploadFetch
    \/ UploadCompare
    \/ WaitPoll
    \/ CallAgain
    \/ ExternalEnvChange

SpecPublish == InitPublish /\ [][NextPublish]_vars

(***************************************************************************)
(* Properties.                                                             *)
(***************************************************************************)
\* The certificate file of a domain list's primary domain: the .crt beside
\* the artifact get_cert_filepath names.
CertificateFileExists(d, files) ==
    PathExists(files, CrtSibling(get_cert_filepath(Split(d)[1])))

\* C1: lego is given renew --days 80 exactly when the persisted domain state
\* equals the resolved domain string and a certificate file of its primary
\* domain exists, and run in every other case.
C1_RenewIffSameDomainsAndCertificate ==
    [][pc = "generate" =>
         /\ Len(lego_runs') = 1
         /\ Last(lego_runs').mode \in { << "renew", "--days", "80" >>, << "run" >> }
         /\ (Last(lego_runs').mode = << "renew", "--days", "80" >>)
              <=> (/\ read_domains_from_last_time(domains_file) = domains
                   /\ CertificateFileExists(domains, certificates))]_vars

\* The value stored under HAPROXY_SSL_CERT in a definition, "" when absent.
StoredCertificate(app) ==
    IF HAPROXY_SSL_CERT \in DOMAIN app.env THEN app.env[HAPROXY_SSL_CERT] ELSE EmptyString

\* The content of the certificate file the publish step reads.
CertificateFileContent ==
    ReadFile(certificates, get_cert_filepath(Split(domains)[1]))

\* C2: having fetched the definition, the publish step sends a PATCH exactly
\* when the stored certificate variable (absent counts as empty) differs from
\* the content of the certificate file; when they are equal it returns with
\* no PATCH and no poll, and there is never a poll without a PATCH.
C2_PatchIffCertificateDiffers ==
    /\ [](patches = << >> => polls = << >>)
    /\ [][pc = "compare" /\ pc' # "compare" =>
            IF StoredCertificate(Get(app_data)) # CertificateFileContent
            THEN Len(patches') = 1
            ELSE patches' = << >> /\ polls' = << >> /\ pc' = "exit" /\ error' = ""]_vars

\* C2's case: the variable is absent, the file is empty, the call returned
\* without a PATCH.
C2_Witness ==
    /\ pc = "exit"
    /\ "publish" \in { steps[i] : i \in 1..Len(steps) }
    /\ IsSome(app_data)
    /\ HAPROXY_SSL_CERT \notin DOMAIN Get(app_data).env
    /\ cert_data = EmptyString
    /\ patches = << >>

\* The second of two publish calls in a row, about to compare: the same
\* certificate content as in the first, and no change of the definition from
\* outside (the first call started from any definition).
SecondCallAfter(ends) ==
    /\ pc = "compare"
    /\ IsSome(previous_upload)
    /\ Get(previous_upload).how \in ends
    /\ Get(previous_upload).cert = cert_data
    /\ external = 0

\* C3 as claimed: the second call sends no PATCH however the first call
\* ended: completed, rejected by the platform, no deployment id, timeout.
C3_SecondCallNeverPatches ==
    [][SecondCallAfter({"unchanged", "completed", "Could not update app",
                        "Marathon did not return deployment id",
                        "Failed to update app due to timeout in deployment."})
         => patches' = << >>]_vars

\* C3 amended: the second call sends no PATCH when the first call found the
\* certificate deployed already, completed, or timed out waiting for the
\* deployment of its accepted PATCH.
C3_SecondCallPatchesNothingAfterAcceptedPatch ==
    [][SecondCallAfter({"unchanged", "completed",
                        "Failed to update app due to timeout in deployment."})
         => patches' = << >> /\ (pc' # "compare" => pc' = "exit")]_vars

\* C3's case: the first call timed out, the second has returned without a PATCH.
C3_Witness ==
    /\ pc = "exit"
    /\ IsSome(previous_upload)
    /\ Get(previous_upload).how = "Failed to update app due to timeout in deployment."
    /\ Get(previous_upload).cert = cert_data
    /\ external = 0
    /\ IsSome(app_data)
    /\ patches = << >>

\* C4: .lego/current_domains changes only in the step in which lego exited 0,
\* and then holds the domain string just issued; when lego exits non-zero, and
\* in every other step, it stays as it was.
C4_DomainsPersistedOnlyAfterSuccess ==
    [][IF pc = "generate" /\ Last(lego_runs').returncode = 0
       THEN domains_file' = Some(domains)
       ELSE domains_file' = domains_file]_vars

\* C4's case: lego exited non-zero on a changed domain list, and the file
\* still holds the list of the last successful issuance.
C4_Witness ==
    /\ pc \in {"fatal", "except"}
    /\ lego_runs # << >>
    /\ Last(lego_runs).returncode # 0
    /\ IsSome(domains_file)
    /\ Get(domains_file) # domains

\* C5: a poll that finds the deployment absent ends the wait with a normal
\* return; the wait ends with the timeout error only when the latest poll
\* listed the deployment and more than 300 seconds were waited.
C5_AbsentCompletesTimeoutOnlyWhileListed ==
    /\ (polls # << >> /\ Last(polls) = "absent") => (error = "" /\ pc = ReturnedPc)
    /\ error = "Failed to update app due to timeout in deployment."
         => (Last(polls) = "listed" /\ deploy_wait_time > 300)

\* The polls before the last all listed the deployment.
AllListedBeforeLast == \A i \in 1..(Len(polls) - 1) : polls[i] = "listed"

\* C6: if the k-th poll is the first to find the deployment absent, 5k being
\* at most 300, the wait has completed after k polls and k sleeps of 5
\* seconds; if every poll lists it, the wait ends with the timeout at the
\* first poll with more than 300 seconds waited, the 61st, and no poll follows.
C6_WaitTiming ==
    /\ deploy_wait_time = DeployPollSeconds * Len(polls)
    /\ Len(polls) <= 61
    /\ AllListedBeforeLast
    /\ (polls # << >> /\ Last(polls) = "absent" /\ 5 * Len(polls) <= 300)
         => pc = ReturnedPc /\ error = ""
    /\ (polls # << >> /\ Last(polls) = "listed")
         => IF 5 * Len(polls) > 300
            THEN /\ error = "Failed to update app due to timeout in deployment."
                 /\ pc \in {"except", "fatal"}
                 /\ Len(polls) = 61
            ELSE pc = "wait" /\ error = ""

\* C6's case: the third poll was the first to find the deployment absent.
C6_Witness ==
    /\ polls = << "listed", "listed", "absent" >>
    /\ deploy_wait_time = 15
    /\ pc = ReturnedPc
    /\ error = ""

\* C7: the n-th wait of one run_client_with_backoff call is 30 * 2^(n-1)
\* seconds, the accumulated wait is the sum of the waits made, and it only
\* grows until the next call starts.
C7_BackoffDoubles ==
    /\ [](/\ \A n \in 1..Len(waits) : waits[n] = 30 * Pow2(n - 1)
          /\ sum_wait_time = SumSeq(waits))
    /\ [][pc # "main" => sum_wait_time' >= sum_wait_time]_vars

\* C7's case: four failed attempts in a row.
C7_Witness ==
    /\ waits = << 30, 60, 120, 240 >>
    /\ sum_wait_time = 450
    /\ backoff_seconds = 480

\* C8: the wrapper re-raises at the first failure at which the accumulated
\* wait plus the next interval would exceed 3600 seconds, and not before: it
\* never waits more than 3600 seconds in all.
C8_GivesUpWithinOneHour ==
    /\ sum_wait_time <= 3600
    /\ (argv1 = "service_with_backoff" /\ pc = "fatal")
         => sum_wait_time + backoff_seconds > 3600

\* C9: every attempt of the backoff wrapper runs the pipeline from its first
\* step: after a failure the wrapper continues at domain resolution with
\* nothing of the failed attempt kept, and in every attempt each step is
\* begun only after the steps before it were begun in that attempt.
C9_RetryRunsWholePipeline ==
    /\ [](/\ pc = "get_domains" => steps = << >>
          /\ pc = "generate" => steps = << "resolve" >>
          /\ pc = "upload" => steps = << "resolve", "issue" >>
          /\ pc = "compare" => steps = << "resolve", "issue", "publish" >>
          /\ pc = "wait" => steps = << "resolve", "issue", "publish", "wait" >>)
    /\ [][pc = "except" /\ pc' # "fatal" =>
            /\ pc' = "get_domains"
            /\ steps' = << >>
            /\ lego_runs' = << >>
            /\ patches' = << >>
            /\ polls' = << >>]_vars

\* C9's case: an attempt after a failed one has gone through all four steps.
C9_Witness ==
    /\ waits # << >>
    /\ pc = "wait"
    /\ steps = << "resolve", "issue", "publish", "wait" >>

\* C10: with a verification method other than http and dns every run ends
\* in domain resolution: lego is not invoked, .lego/current_domains is not
\* written, no PATCH is sent.
C10_UnknownMethodAbortsInResolution ==
    verification_method \notin {"http", "dns"} =>
        /\ lego_runs = << >>
        /\ patches = << >>
        /\ domains_file = None
        /\ HAPROXY_SSL_CERT \notin DOMAIN lb_app.env
        /\ pc \in {"main", "get_domains", "except", "fatal"}
        /\ steps \in { << >>, << "resolve" >> }
        /\ (pc \in {"except", "fatal"} => error # "")

\* C10's case: domain resolution has raised for the unknown method.
C10_Witness ==
    /\ verification_method \notin {"http", "dns"}
    /\ error = "Unknown verification method"
    /\ steps = << "resolve" >>
    /\ pc \in {"except", "fatal"}

\* The steps in their order.
PipelineOrder == << "resolve", "issue", "publish", "wait" >>

C12_UnknownMethodIsRetried ==
    /\ [][(/\ argv1 = "service_with_backoff"
           /\ pc = "get_domains"
           /\ error' = "Unknown verification method") => pc' = "except"]_vars
    /\ [][(/\ pc = "except"
           /\ error = "Unknown verification method"
           /\ sum_wait_time < 3600) =>
            /\ pc' = "get_domains"
            /\ waits' = Append(waits, 30 * Pow2(Len(waits)))
            /\ steps' = << >>
            /\ error' = ""]_vars
    /\ []((/\ argv1 = "service_with_backoff"
           /\ pc = "fatal"
           /\ error = "Unknown verification method")
            => (sum_wait_time >= 3600 /\ waits # << >>))

\* C12's case: the unknown method was retried until the budget was used up.
C12_Witness ==
    /\ argv1 = "service_with_backoff"
    /\ verification_method \notin {"http", "dns"}
    /\ pc = "fatal"
    /\ error = "Unknown verification method"
    /\ Len(waits) > 1
    /\ \A n \in 1..Len(waits) : waits[n] = 30 * Pow2(n - 1)

\* The PATCH of this call was accepted by the platform.
PatchAccepted ==
    /\ IsSome(lb_app_at_patch)
    /\ error \notin {"Could not update app", "Marathon did not return deployment id"}

\* The value of the other environment variable in a definition.
OtherValue(app) == DictGet(app.env, OtherEnvKey, EmptyString)

\* C13: the PATCH is built from the definition as fetched, whatever the
\* platform holds when it arrives: once accepted, every variable but the
\* certificate has its fetched value again, so a change made to it between
\* the fetch and the PATCH is gone, and the call raises nothing for it (its
\* only errors are the platform's responses and the wait's).
C13_PatchOverwritesConcurrentChange ==
    PatchAccepted =>
        /\ OtherValue(lb_app) = OtherValue(Get(app_data))
        /\ lb_app.env = DictSet(Get(app_data).env, HAPROXY_SSL_CERT, cert_data)
        /\ error \in {"", "TypeError", "Failed to update app due to timeout in deployment."}
        /\ (pc \in {"exit", "fatal"} /\ polls # << >> /\ Last(polls) = "absent"
              /\ deploy_wait_time <= 300) => (pc = "exit" /\ error = "")

\* C13's case: the other variable was changed between the fetch and the
\* PATCH, the PATCH put the fetched value back, the call returned normally.
C13_Witness ==
    /\ PatchAccepted
    /\ pc = "exit"
    /\ error = ""
    /\ OtherValue(Get(lb_app_at_patch)) # OtherValue(Get(app_data))
    /\ OtherValue(lb_app) = OtherValue(Get(app_data))
    /\ external = 1

\* C14: every PATCH body of a call has the fields id, env and secrets and
\* no other; env has the keys of the fetched env and HAPROXY_SSL_CERT, the
\* certificate file's content under HAPROXY_SSL_CERT and the fetched value
\* under every other key; secrets is the fetched secrets, the empty mapping
\* when the definition has none.
C14_PatchBodyFrame ==
    \A i \in 1..Len(patches) :
        LET body == patches[i]
            fetched == Get(app_data)
        IN /\ DOMAIN body = {"id", "env", "secrets"}
           /\ body.id = "marathon-lb"
           /\ DOMAIN body.env = (DOMAIN fetched.env) \cup {HAPROXY_SSL_CERT}
           /\ body.env[HAPROXY_SSL_CERT] = cert_data
           /\ cert_data = CertificateFileContent
           /\ \A k \in (DOMAIN fetched.env) \ {HAPROXY_SSL_CERT} :
                body.env[k] = fetched.env[k]
           /\ body.secrets = IF "secrets" \in DOMAIN fetched THEN fetched.secrets ELSE {}

\* C14's case: a PATCH was sent for a definition without secrets and
\* without the certificate variable.
C14_Witness ==
    /\ Len(patches) = 1
    /\ "secrets" \notin DOMAIN Get(app_data)
    /\ HAPROXY_SSL_CERT \notin DOMAIN Get(app_data).env
    /\ patches[1].secrets = {}
    /\ patches[1].env[OtherEnvKey] = Get(app_data).env[OtherEnvKey]

\* The errors of update_marathon_app's PATCH.
PatchErrors == {"Could not update app", "Marathon did not return deployment id"}

\* C15: an app-definition fetch answered without success ends the run with
\* an error and no PATCH sent; a PATCH answered without success or without
\* a deploymentId ends it with an error and no poll made; an error raised in
\* the run leaves it: to the except clause of the backoff wrapper, and out
\* of the process in the other modes.
C15_PlatformErrorsStopTheRun ==
    /\ error = "Could not get app details from marathon"
         => (/\ patches = << >>
             /\ polls = << >>
             /\ Last(steps) \in {"resolve", "publish"}
             /\ Last(app_gets) = (IF Last(steps) = "resolve" THEN "get_domains" ELSE "upload"))
    /\ error \in PatchErrors
         => (/\ Len(patches) = 1
             /\ polls = << >>
             /\ deploy_wait_time = 0
             /\ Last(steps) = "publish")
    /\ error # ""
         => (/\ pc \in {"except", "fatal"}
             /\ (argv1 # "service_with_backoff" => pc = "fatal"))

\* C15's case: the PATCH was answered without a deploymentId in service mode.
C15_Witness ==
    /\ argv1 = "service"
    /\ error = "Marathon did not return deployment id"
    /\ pc = "fatal"
    /\ Len(patches) = 1
    /\ polls = << >>

\* The primary domain of the resolved domain string.
PrimaryDomain == Split(domains)[1]

\* C16: for the primary domain of every resolved domain string the .crt path
\* tested by the issuer is the sibling of the .pem path get_cert_filepath
\* returns; and with a wildcard primary domain, the persisted state equal to
\* the domain string and both normalized files present, lego is given renew.
C16_ExistsCheckUsesArtifactName ==
    /\ [](pc = "generate" =>
            ExistsCheckPath(PrimaryDomain) = CrtSibling(get_cert_filepath(PrimaryDomain)))
    /\ [][(/\ pc = "generate"
           /\ StartsWithStar(PrimaryDomain)
           /\ read_domains_from_last_time(domains_file) = domains
           /\ PathExists(certificates, get_cert_filepath(PrimaryDomain))
           /\ PathExists(certificates, CrtSibling(get_cert_filepath(PrimaryDomain))))
            => Last(lego_runs').mode = << "renew", "--days", "80" >>]_vars

\* The number of app-definition GETs domain resolution has made in this run.
ResolutionGets == Cardinality({ i \in 1..Len(app_gets) : app_gets[i] = "get_domains" })

\* C17: once domain resolution has begun it has read the app definition
\* exactly once in http mode and not at all in dns mode, and in dns mode with
\* DOMAINS set it has returned DOMAINS whatever the platform answers.
C17_ResolutionReadsPlatformOnlyInHttpMode ==
    /\ (verification_method = "http" /\ steps # << >>) => ResolutionGets = 1
    /\ verification_method = "dns" => ResolutionGets = 0
    /\ (verification_method = "dns" /\ IsSome(DOMAINS) /\ steps = << "resolve" >>)
         => (error = "" /\ pc = "generate" /\ domains = Get(DOMAINS))

\* C18: when an attempt fails after lego exited 0, .lego/current_domains
\* already holds its domain string; the attempt after it, resolving the same
\* domain string with the certificate file of its primary domain present,
\* gives lego renew, and sends a PATCH exactly when the deployed certificate
\* differs from the file.
C18_PersistedStateSurvivesPublishFailure ==
    /\ []((error # "" /\ lego_runs # << >> /\ Last(lego_runs).returncode = 0)
            => domains_file = Some(domains))
    /\ [][(/\ pc = "generate"
           /\ failed_after_issue
           /\ read_domains_from_last_time(domains_file) = domains
           /\ CertificateFileExists(domains, certificates))
            => Last(lego_runs').mode = << "renew", "--days", "80" >>]_vars
    /\ [][(pc = "compare" /\ failed_after_issue)
            => (Len(patches') = 1
                  <=> StoredCertificate(Get(app_data)) # CertificateFileContent)]_vars

\* C19: in service_with_backoff mode every call of run_client_with_backoff
\* starts with the interval 30 and no wait accumulated, whatever the waits of
\* the call before; and when an attempt returns the wrapper returns with it,
\* with no wait added, to the 24-hour sleep and from there to the next call.
C19_BackoffStateStartsFresh ==
    /\ [][(pc = "main" /\ argv1 = "service_with_backoff") =>
            /\ pc' = "get_domains"
            /\ backoff_seconds' = 30
            /\ sum_wait_time' = 0
            /\ waits' = << >>]_vars
    /\ []((/\ argv1 = "service_with_backoff"
           /\ pc \notin {"main", "sleep24"}
           /\ waits = << >>) => (backoff_seconds = 30 /\ sum_wait_time = 0))
    /\ [][(/\ argv1 = "service_with_backoff"
           /\ pc \in {"compare", "wait"}
           /\ error' = ""
           /\ pc' \notin {"compare", "wait"}) =>
            /\ pc' = "sleep24"
            /\ waits' = waits
            /\ sum_wait_time' = sum_wait_time]_vars
    /\ [][pc = "sleep24" => (pc' = "main" /\ waits' = waits)]_vars

\* C19's case: a call with three failed attempts and their waits has
\* returned, the 24 hours have passed, the next call is about to start.
C19_Witness ==
    /\ argv1 = "service_with_backoff"
    /\ pc = "main"
    /\ waits = << 30, 60, 120 >>
    /\ backoff_seconds = 240
    /\ error = ""

\* C20: a call of run_client_with_backoff makes at most 7 waits (8 attempts)
\* and a deployment wait at most 61 polls; a started call of the wrapper
\* ends, returning to the 24-hour sleep or re-raising, and when it re-raises
\* it re-raises the error of the attempt that just failed; a started
\* deployment wait ends.
C20_WrapperAndWaitTerminate ==
    /\ [](Len(waits) <= 7 /\ Len(polls) <= 61)
    /\ [][(pc = "except" /\ pc' = "fatal") => (error # "" /\ error' = error)]_vars
    /\ (argv1 = "service_with_backoff" /\ pc = "get_domains")
         ~> (pc \in {"sleep24", "fatal"})
    /\ (pc = "wait") ~> (pc # "wait")

\* C20's case: every attempt failed, the last one by the timeout of its
\* deployment wait, and the wrapper has re-raised.
C20_Witness ==
    /\ argv1 = "service_with_backoff"
    /\ pc = "fatal"
    /\ Len(waits) = 7
    /\ Len(polls) = 61
    /\ error = "Failed to update app due to timeout in deployment."

=============================================================================
